---- MODULE Spec2Model ----
(***************************************************************************)
(* A model of lac/vector.py: the Vector value type (components held in an  *)
(* array of doubles, a lazily cached norm) and the free functions on it.   *)
(*                                                                         *)
(* Floats.  A double is modelled as an integer q standing for q / Unit, a  *)
(* binary fraction, so that every modelled component is exactly            *)
(* representable.  An arithmetic operation whose exact result is not on    *)
(* this grid rounds to the nearest grid value, ties to even, as IEEE 754   *)
(* does; a product too small for the grid rounds to zero (underflow).      *)
(*                                                                         *)
(* Python ints (dimensions, indices, the literals 1 and -1) are integers.  *)
(***************************************************************************)
EXTENDS Integers, Sequences, FiniteSets

(* ------------------------------ bounds --------------------------------- *)

\* Largest dimension of a vector the caller constructs.
MaxDim == 3

\* Number of threads that read the norm of one shared vector.
NumThreads == 2

(* --------------------------- float arithmetic -------------------------- *)

\* Resolution of the modelled doubles: a float x is the integer x * Unit.
Unit == 4

\* Decimal digits kept by tolerance equality (lac.PRECISION).
PRECISION == 0

\* n / d (d > 0) rounded to the nearest integer, ties to the even one.
RoundHalfEven(n, d) ==
    LET fl == n \div d
        r2 == 2 * (n - fl * d)
    IN  IF r2 < d THEN fl
        ELSE IF r2 > d THEN fl + 1
        ELSE IF fl % 2 = 0 THEN fl ELSE fl + 1

\* A Python int as a float.
Float(i) == i * Unit

\* Float product a * b.
FMul(a, b) == RoundHalfEven(a * b, Unit)

\* Float quotient a / b, b nonzero.
FDiv(a, b) ==
    IF b > 0 THEN RoundHalfEven(a * Unit, b) ELSE RoundHalfEven(-(a * Unit), -b)

\* math.sqrt(x), x >= 0: the grid value nearest to the real square root.
\* (A tie cannot happen: (y - 1/2)^2 is never an integer.)
FSqrt(x) ==
    LET n == x * Unit
    IN  CHOOSE y \in 0..(n + 1) :
            /\ (y = 0 \/ y * (y - 1) < n)
            /\ (y + 1) * y >= n

\* math.fsum: the exactly rounded sum; a sum of grid values is on the grid.
RECURSIVE FSum(_)
FSum(s) == IF s = <<>> THEN 0 ELSE Head(s) + FSum(Tail(s))

RECURSIVE Pow10(_)
Pow10(n) == IF n = 0 THEN 1 ELSE 10 * Pow10(n - 1)

\* round(c, ndigits): c rounded to ndigits decimals, ties to even.
Round(c, ndigits) ==
    LET step == Unit \div Pow10(ndigits)
    IN  step * RoundHalfEven(c, step)

\* math.acos on the grid points of [-1, 1] (radians, rounded to the grid).
AcosTable == [x \in -Unit..Unit |->
    CASE x = -4 -> 13 [] x = -3 -> 10 [] x = -2 -> 8 [] x = -1 -> 7
      [] x = 0 -> 6 [] x = 1 -> 5 [] x = 2 -> 4 [] x = 3 -> 3 [] x = 4 -> 0]

(* ------------------------------ values --------------------------------- *)

\* The float components of the vectors the caller of the whole interface
\* holds: 0.0 and 1.0.
CompVals == {Float(0), Float(1)}

AllComponents == UNION {[1..n -> CompVals] : n \in 0..MaxDim}

\* The float components where the values themselves matter (rounding, sums,
\* square roots): 0.0, 0.5 and 1.0.
FineVals == {Float(0), Unit \div 2, Float(1)}

FineComponents == UNION {[1..n -> FineVals] : n \in 0..MaxDim}

\* The held vectors: the caller's two operand variables.
Objs == {"a", "b"}

\* self._norm = None
None == <<>>

\* Vector.__init__
Vector(components) == [components |-> components, norm |-> None]

\* Vector.dim
dim(v) == Len(v.components)

\* The attributes of class Vector.
VectorAttrs == {"typecode", "make_random", "make_zero", "make_unitary",
                "_components", "_norm", "norm", "components", "dim",
                "__init__", "__iter__", "__getitem__", "__matmul__", "__add__",
                "__rmul__", "__neg__", "__sub__", "__abs__", "__len__",
                "__eq__", "__repr__"}

HasAttr(name) == name \in VectorAttrs

(* --------------------------- call outcomes ----------------------------- *)
\* The outcome of a call: an exception, a number, a vector or a boolean,
\* with the steps the call took, in order.

Raise(e, tr) ==
    [tag |-> "raise", exc |-> e, num |-> 0, vec |-> <<>>, bool |-> FALSE, trace |-> tr]
RetNum(x, tr) ==
    [tag |-> "num", exc |-> "", num |-> x, vec |-> <<>>, bool |-> FALSE, trace |-> tr]
RetVec(c, tr) ==
    [tag |-> "vec", exc |-> "", num |-> 0, vec |-> c, bool |-> FALSE, trace |-> tr]
RetBool(b, tr) ==
    [tag |-> "bool", exc |-> "", num |-> 0, vec |-> <<>>, bool |-> b, trace |-> tr]

Min(x, y) == IF x < y THEN x ELSE y

(* ----------------------------- functions ------------------------------- *)
\* Each function takes the component sequences of its operands (a function
\* other than the norm accessor reads a Vector only through dim, iteration
\* and indexing) and yields the outcome of the call.

\* k * c for c in v
ScaleComps(c, k) == [i \in 1..Len(c) |-> FMul(k, c[i])]

\* scale adding k to each component instead of multiplying by it.
scale_adding(c, k) ==
    IF ~k.isnum THEN Raise("TypeError", <<"isinstance">>)
    ELSE RetVec([i \in 1..Len(c) |-> k.val + c[i]], <<"isinstance", "multiply", "Vector">>)

\* scale(v, k); k is [isnum, val], val a float.
scale(c, k) ==
    IF ~k.isnum THEN Raise("TypeError", <<"isinstance">>)
    ELSE RetVec(ScaleComps(c, k.val), <<"isinstance", "multiply", "Vector">>)

\* A Python number as the argument k of scale.
Num(x) == [isnum |-> TRUE, val |-> x]

\* c1 + c2 for c1, c2 in zip(v1, v2)
ZipSum(c1, c2) == [i \in 1..Min(Len(c1), Len(c2)) |-> c1[i] + c2[i]]

\* c1 * c2 for c1, c2 in zip(v1, v2)
ZipMul(c1, c2) == [i \in 1..Min(Len(c1), Len(c2)) |-> FMul(c1[i], c2[i])]

\* add without its dimension check: zip stops at the shorter operand.
add_unchecked(c1, c2) == RetVec(ZipSum(c1, c2), <<"sum", "Vector">>)

\* add(v1, v2)
add(c1, c2) ==
    IF Len(c1) # Len(c2) THEN Raise("ValueError", <<"dim_check">>)
    ELSE RetVec(ZipSum(c1, c2), <<"dim_check", "sum", "Vector">>)

\* subtract(v1, v2): the argument scale(v2, -1) is evaluated, then add is called.
subtract(c1, c2) ==
    LET s == scale(c2, Num(Float(-1)))
        r == add(c1, s.vec)
    IN  IF s.tag = "raise" THEN s ELSE [r EXCEPT !.trace = s.trace \o r.trace]

\* dot(v1, v2)
dot(c1, c2) ==
    IF Len(c1) # Len(c2) THEN Raise("ValueError", <<"dim_check">>)
    ELSE RetNum(FSum(ZipMul(c1, c2)), <<"dim_check", "multiply", "fsum">>)

\* The value the norm accessor returns for v, and v after the read.
NormOf(c) == FSqrt(dot(c, c).num)
norm(v) == IF v.norm = None THEN NormOf(v.components) ELSE v.norm[1]
Read(v) == [v EXCEPT !.norm = <<norm(v)>>]

\* cross(v1, v2): the loop reads v.ndim of v1 first.
cross(c1, c2) ==
    IF ~HasAttr("ndim") THEN Raise("AttributeError", <<"getattr ndim">>)
    ELSE IF Len(c1) # 3 \/ Len(c2) # 3 THEN Raise("ValueError", <<"dim_check">>)
    ELSE LET x1 == FMul(c1[2], c2[3]) - FMul(c1[3], c2[2])
             x2 == FMul(c1[3], c2[1]) - FMul(c1[3], c2[1])
             x3 == FMul(c1[1], c2[2]) - FMul(c1[2], c2[1])
         IN  RetVec(<<x1, x2, x3>>, <<"dim_check", "multiply", "Vector">>)

\* build_unit_vector(v), given the value n that v.norm returned.
build_unit_vector(c, n) ==
    IF n = 0 THEN Raise("ZeroDivisionError", <<"norm", "divide">>)
    ELSE LET r == scale(c, Num(FDiv(Float(1), n)))
         IN  [r EXCEPT !.trace = <<"norm", "divide">> \o r.trace]

\* angle_between(v1, v2), given the values n1, n2 the norms return.
angle_between(c1, c2, n1, n2) ==
    LET d == dot(c1, c2)
        p == FMul(n1, n2)
    IN  IF d.tag = "raise" THEN d
        ELSE IF p = 0 THEN Raise("ZeroDivisionError", d.trace \o <<"norm", "norm", "divide">>)
        ELSE LET x == FDiv(d.num, p)
             IN  IF x \notin DOMAIN AcosTable
                 THEN Raise("ValueError", d.trace \o <<"norm", "norm", "divide", "acos">>)
                 ELSE RetNum(AcosTable[x], d.trace \o <<"norm", "norm", "divide", "acos">>)

\* project(v, d): the argument d.buil_unitary() is evaluated first.
project(c, d, n) ==
    IF ~HasAttr("buil_unitary") THEN Raise("AttributeError", <<"getattr buil_unitary">>)
    ELSE LET u == build_unit_vector(d, n)
         IN  IF u.tag = "raise" THEN u ELSE dot(c, u.vec)

\* almost_equal without the comparison of the dimensions.
almost_equal_zip_only(c1, c2) ==
    RetBool(\A i \in 1..Min(Len(c1), Len(c2)) :
                Round(c1[i], PRECISION) = Round(c2[i], PRECISION), <<"round">>)

\* almost_equal(v1, v2, ndigits=PRECISION)
almost_equal(c1, c2) ==
    RetBool((\A i \in 1..Min(Len(c1), Len(c2)) :
                 Round(c1[i], PRECISION) = Round(c2[i], PRECISION))
            /\ Len(c1) = Len(c2), <<"round", "dim_check">>)

\* __getitem__ refusing every index outside [0, dim).
getitem_nonnegative(c, i) ==
    IF 0 <= i /\ i < Len(c) THEN RetNum(c[i + 1], <<"index">>)
    ELSE Raise("IndexError", <<"index">>)

\* Vector.__getitem__ with an integer index (0-based), as array indexing does.
getitem(c, i) ==
    IF 0 <= i /\ i < Len(c) THEN RetNum(c[i + 1], <<"index">>)
    ELSE IF -Len(c) <= i /\ i < 0 THEN RetNum(c[Len(c) + i + 1], <<"index">>)
    ELSE Raise("IndexError", <<"index">>)

\* Vector.make_zero(dim)
make_zero(n) == RetVec([i \in 1..n |-> Float(0)], <<"Vector">>)

\* Vector.make_unitary(components), n the norm of the vector just built.
make_unitary(c, n) ==
    LET r == build_unit_vector(c, n)
    IN  [r EXCEPT !.trace = <<"Vector">> \o r.trace]

\* Vector.__neg__: -1 * self, which is __rmul__(-1), which is scale(self, -1).
neg(c) == scale(c, Num(Float(-1)))

\* Vector.__sub__: self + -other.
sub(c1, c2) ==
    LET n == neg(c2)
        r == add(c1, n.vec)
    IN  IF n.tag = "raise" THEN n ELSE [r EXCEPT !.trace = n.trace \o r.trace]

\* Vector.__eq__
eq(c1, c2) == almost_equal(c1, c2)

(* ------------------------------- state --------------------------------- *)

VARIABLES
    heap,       \* the held Vector objects: [components, norm]
    last,       \* the last call of the caller and its outcome
    pc,         \* per reader thread: its place in the norm accessor
    tmp,        \* per reader thread: the value it computed, not yet stored
    got,        \* the values the norm accessor has returned to the readers
    wrote,      \* the values stored into the cache field
    computes,   \* how many times sqrt(dot(self, self)) was evaluated
    overlap     \* whether two reads of the norm were ever in progress at once

vars == <<heap, last, pc, tmp, got, wrote, computes, overlap>>

Threads == 1..NumThreads

\* The scalars a caller passes to scale: -1, 2, and a value that is no number.
KArgs == {Num(Float(-1)), Num(Float(2)), [isnum |-> FALSE, val |-> 0]}

\* The integers a caller passes as an index.
Indices == (-(MaxDim + 1))..MaxDim

NoCall == [op |-> "none", v1 |-> "a", v2 |-> "a", arg |-> 0, res |-> RetBool(FALSE, <<>>)]

Call(op, o1, o2, arg, res) == [op |-> op, v1 |-> o1, v2 |-> o2, arg |-> arg, res |-> res]

C(o) == heap[o].components

readers == <<pc, tmp, got, wrote, computes, overlap>>

Idle ==
    /\ pc = [t \in Threads |-> "idle"]
    /\ tmp = [t \in Threads |-> 0]
    /\ got = {}
    /\ wrote = {}
    /\ computes = 0
    /\ overlap = FALSE

\* The caller holds two freshly constructed vectors.
Init ==
    /\ heap \in [Objs -> {Vector(c) : c \in AllComponents}]
    /\ last = NoCall
    /\ Idle

(* ------------------------- the caller's calls -------------------------- *)
\* The caller makes one call at a time: last holds the call and its outcome
\* until the caller has taken the outcome (Return).

Ready == last.op = "none"

CallNorm(o) ==
    /\ Ready
    /\ heap' = [heap EXCEPT ![o] = Read(heap[o])]
    /\ last' = Call("norm", o, o, 0, RetNum(norm(heap[o]), <<"norm">>))
    /\ UNCHANGED readers

CallDim(o) ==
    /\ Ready
    /\ last' = Call("dim", o, o, 0, RetNum(dim(heap[o]), <<"len">>))
    /\ UNCHANGED <<heap, readers>>

CallComponents(o) ==
    /\ Ready
    /\ last' = Call("components", o, o, 0, RetVec(C(o), <<>>))
    /\ UNCHANGED <<heap, readers>>

CallIter(o) ==
    /\ Ready
    /\ last' = Call("iter", o, o, 0, RetVec([i \in 1..dim(heap[o]) |-> C(o)[i]], <<"iter">>))
    /\ UNCHANGED <<heap, readers>>

CallGetItem(o, i) ==
    /\ Ready
    /\ last' = Call("getitem", o, o, i, getitem(C(o), i))
    /\ UNCHANGED <<heap, readers>>

\* scale multiplying the components of v in place, and returning v.
CallScaleInPlace(o, k) ==
    /\ Ready
    /\ last' = Call("scale", o, o, k.val, scale(C(o), k))
    /\ heap' = IF k.isnum THEN [heap EXCEPT ![o].components = ScaleComps(C(o), k.val)]
               ELSE heap
    /\ UNCHANGED readers

CallScale(o, k) ==
    /\ Ready
    /\ last' = Call("scale", o, o, k.val, scale(C(o), k))
    /\ UNCHANGED <<heap, readers>>

CallNeg(o) ==
    /\ Ready
    /\ last' = Call("neg", o, o, 0, neg(C(o)))
    /\ UNCHANGED <<heap, readers>>

CallAdd(o1, o2) ==
    /\ Ready
    /\ last' = Call("add", o1, o2, 0, add(C(o1), C(o2)))
    /\ UNCHANGED <<heap, readers>>

CallSubtract(o1, o2) ==
    /\ Ready
    /\ last' = Call("subtract", o1, o2, 0, subtract(C(o1), C(o2)))
    /\ UNCHANGED <<heap, readers>>

CallSub(o1, o2) ==
    /\ Ready
    /\ last' = Call("sub", o1, o2, 0, sub(C(o1), C(o2)))
    /\ UNCHANGED <<heap, readers>>

CallDot(o1, o2) ==
    /\ Ready
    /\ last' = Call("dot", o1, o2, 0, dot(C(o1), C(o2)))
    /\ UNCHANGED <<heap, readers>>

CallCross(o1, o2) ==
    /\ Ready
    /\ last' = Call("cross", o1, o2, 0, cross(C(o1), C(o2)))
    /\ UNCHANGED <<heap, readers>>

\* The norms are read, and cached, only once dot has returned.
CallAngleBetween(o1, o2) ==
    LET d == dot(C(o1), C(o2))
        h1 == [heap EXCEPT ![o1] = Read(heap[o1])]
    IN  /\ Ready
        /\ last' = Call("angle_between", o1, o2, 0,
                        angle_between(C(o1), C(o2), norm(heap[o1]), norm(heap[o2])))
        /\ heap' = IF d.tag = "raise" THEN heap
                   ELSE [h1 EXCEPT ![o2] = Read(h1[o2])]
        /\ UNCHANGED readers

CallBuildUnitVector(o) ==
    /\ Ready
    /\ heap' = [heap EXCEPT ![o] = Read(heap[o])]
    /\ last' = Call("build_unit_vector", o, o, 0, build_unit_vector(C(o), norm(heap[o])))
    /\ UNCHANGED readers

\* d.norm is read only if the call reaches build_unit_vector.
CallProject(o1, o2) ==
    /\ Ready
    /\ last' = Call("project", o1, o2, 0, project(C(o1), C(o2), norm(heap[o2])))
    /\ heap' = IF HasAttr("buil_unitary")
               THEN [heap EXCEPT ![o2] = Read(heap[o2])] ELSE heap
    /\ UNCHANGED readers

CallAlmostEqual(o1, o2) ==
    /\ Ready
    /\ last' = Call("almost_equal", o1, o2, 0, almost_equal(C(o1), C(o2)))
    /\ UNCHANGED <<heap, readers>>

CallEq(o1, o2) ==
    /\ Ready
    /\ last' = Call("eq", o1, o2, 0, eq(C(o1), C(o2)))
    /\ UNCHANGED <<heap, readers>>

CallMakeZero(n) ==
    /\ Ready
    /\ last' = Call("make_zero", "a", "a", n, make_zero(n))
    /\ UNCHANGED <<heap, readers>>

\* make_unitary on the component sequence of a held vector: the vector it
\* builds, and the norm it caches, are the new object's.
CallMakeUnitary(o) ==
    /\ Ready
    /\ last' = Call("make_unitary", o, o, 0, make_unitary(C(o), NormOf(C(o))))
    /\ UNCHANGED <<heap, readers>>

\* The caller takes the outcome; an outcome that is a vector is a new object,
\* which the caller does not keep among the held vectors.
Return ==
    /\ ~Ready
    /\ last' = NoCall
    /\ UNCHANGED <<heap, readers>>

Next ==
    \/ Return
    \/ \E o \in Objs : CallNorm(o)
    \/ \E o \in Objs : CallDim(o)
    \/ \E o \in Objs : CallComponents(o)
    \/ \E o \in Objs : CallIter(o)
    \/ \E o \in Objs, i \in Indices : CallGetItem(o, i)
    \/ \E o \in Objs, k \in KArgs : CallScale(o, k)
    \/ \E o \in Objs : CallNeg(o)
    \/ \E o1, o2 \in Objs : CallAdd(o1, o2)
    \/ \E o1, o2 \in Objs : CallSubtract(o1, o2)
    \/ \E o1, o2 \in Objs : CallSub(o1, o2)
    \/ \E o1, o2 \in Objs : CallDot(o1, o2)
    \/ \E o1, o2 \in Objs : CallCross(o1, o2)
    \/ \E o1, o2 \in Objs : CallAngleBetween(o1, o2)
    \/ \E o \in Objs : CallBuildUnitVector(o)
    \/ \E o1, o2 \in Objs : CallProject(o1, o2)
    \/ \E o1, o2 \in Objs : CallAlmostEqual(o1, o2)
    \/ \E o1, o2 \in Objs : CallEq(o1, o2)
    \/ \E n \in 0..MaxDim : CallMakeZero(n)
    \/ \E o \in Objs : CallMakeUnitary(o)

Spec == Init /\ [][Next]_vars

(* ------------------ the arithmetic and the equality -------------------- *)
\* The functions whose results depend on the component values, applied to
\* vectors of finer components.

InitPure ==
    /\ heap \in [Objs -> {Vector(c) : c \in FineComponents}]
    /\ last = NoCall
    /\ Idle

NextPure ==
    \/ Return
    \/ \E o \in Objs, k \in KArgs : CallScale(o, k)
    \/ \E o \in Objs : CallNeg(o)
    \/ \E o1, o2 \in Objs : CallAdd(o1, o2)
    \/ \E o1, o2 \in Objs : CallSubtract(o1, o2)
    \/ \E o1, o2 \in Objs : CallSub(o1, o2)
    \/ \E o1, o2 \in Objs : CallAlmostEqual(o1, o2)
    \/ \E o1, o2 \in Objs : CallEq(o1, o2)
    \/ \E n \in 0..MaxDim : CallMakeZero(n)

SpecPure == InitPure /\ [][NextPure]_vars

(* ------------------- concurrent reads of one norm ---------------------- *)
\* Several threads read the norm of the shared vector "a".  A thread may be
\* preempted between any two of: the test of the cache field, the
\* computation, the store, and the load of the field that is returned.

Shared == "a"

InitNorm ==
    /\ \E c \in FineComponents : heap = [o \in Objs |-> Vector(c)]
    /\ last = NoCall
    /\ Idle

\* if self._norm is None
NormTest(t) ==
    /\ pc[t] = "idle"
    /\ pc' = [pc EXCEPT ![t] = IF heap[Shared].norm = None THEN "compute" ELSE "return"]
    /\ overlap' = (overlap \/ \E u \in Threads \ {t} : pc[u] # "idle")
    /\ UNCHANGED <<heap, last, tmp, got, wrote, computes>>

\* The norm computed without the square root.
NormComputeNoSqrt(t) ==
    /\ pc[t] = "compute"
    /\ tmp' = [tmp EXCEPT ![t] = dot(C(Shared), C(Shared)).num]
    /\ computes' = computes + 1
    /\ pc' = [pc EXCEPT ![t] = "store"]
    /\ UNCHANGED <<heap, last, got, wrote, overlap>>

\* math.sqrt(dot(self, self))
NormCompute(t) ==
    /\ pc[t] = "compute"
    /\ tmp' = [tmp EXCEPT ![t] = NormOf(C(Shared))]
    /\ computes' = computes + 1
    /\ pc' = [pc EXCEPT ![t] = "store"]
    /\ UNCHANGED <<heap, last, got, wrote, overlap>>

\* self._norm = ...
NormStore(t) ==
    /\ pc[t] = "store"
    /\ heap' = [heap EXCEPT ![Shared].norm = <<tmp[t]>>]
    /\ wrote' = wrote \cup {tmp[t]}
    /\ pc' = [pc EXCEPT ![t] = "return"]
    /\ UNCHANGED <<last, tmp, got, computes, overlap>>

\* return self._norm
NormReturn(t) ==
    /\ pc[t] = "return"
    /\ got' = got \cup {heap[Shared].norm}
    /\ pc' = [pc EXCEPT ![t] = "idle"]
    /\ UNCHANGED <<heap, last, tmp, wrote, computes, overlap>>

NextNorm ==
    \/ \E t \in Threads : NormTest(t)
    \/ \E t \in Threads : NormCompute(t)
    \/ \E t \in Threads : NormStore(t)
    \/ \E t \in Threads : NormReturn(t)

SpecNorm == InitNorm /\ [][NextNorm]_vars

(* ------------------------------- claims -------------------------------- *)

D1 == Len(C(last.v1))
D2 == Len(C(last.v2))
Raised(e) == last.res.tag = "raise" /\ last.res.exc = e

\* The 3D cross product of two 3-dimensional component sequences.
CrossProduct(c1, c2) ==
    << FMul(c1[2], c2[3]) - FMul(c1[3], c2[2]),
       FMul(c1[3], c2[1]) - FMul(c1[1], c2[3]),
       FMul(c1[1], c2[2]) - FMul(c1[2], c2[1]) >>

\* C1: cross(v1, v2) of two 3-dimensional vectors returns their standard 3D
\* cross product; cross([1,0,0], [0,1,0]) is [0,0,1].
C1_CrossIsCrossProduct ==
    (last.op = "cross" /\ D1 = 3 /\ D2 = 3) =>
        /\ last.res.tag = "vec"
        /\ last.res.vec = CrossProduct(C(last.v1), C(last.v2))

\* C2: for d of nonzero norm and of the dimension of v, project(v, d) returns
\* the number dot(v, scale(d, 1/d.norm)).
C2_ProjectIsDotWithUnit ==
    (last.op = "project" /\ D1 = D2 /\ NormOf(C(last.v2)) # 0) =>
        /\ last.res.tag = "num"
        /\ last.res.num =
              dot(C(last.v1),
                  scale(C(last.v2), Num(FDiv(Float(1), NormOf(C(last.v2))))).vec).num

MismatchedCall ==
    /\ last.op \in {"add", "subtract", "dot"}
    /\ D1 # D2

\* C3 (as claimed): add, subtract and dot of vectors of different dimensions
\* raise ValueError, and the dimension check is the first step of the call:
\* nothing is computed and no vector is built before it.
C3_DimensionCheckFirst ==
    MismatchedCall => (Raised("ValueError") /\ last.res.trace = <<"dim_check">>)

\* C3 (amended): add, subtract and dot of vectors of different dimensions
\* raise ValueError and take no step after the dimension check; the check is
\* the first step of add and of dot, while subtract first builds the
\* intermediate vector scale(v2, -1) and only then, inside add, checks.
C3_DimensionCheckBeforeSum ==
    MismatchedCall =>
        /\ Raised("ValueError")
        /\ last.res.trace[Len(last.res.trace)] = "dim_check"
        /\ last.op \in {"add", "dot"} => last.res.trace = <<"dim_check">>
        /\ last.op = "subtract" =>
              last.res.trace = <<"isinstance", "multiply", "Vector", "dim_check">>

C3_Witness == MismatchedCall /\ last.op = "subtract" /\ Raised("ValueError")

\* C4: cross with an operand whose dimension is not 3 raises ValueError,
\* whatever the two dimensions, and returns no vector.
C4_CrossDimensionMismatch ==
    (last.op = "cross" /\ (D1 # 3 \/ D2 # 3)) => Raised("ValueError")

CacheValid(h) ==
    \A o \in Objs : h[o].norm # None => h[o].norm = <<NormOf(h[o].components)>>

\* C5: no call of the interface changes the components of a held vector, and
\* a populated norm cache holds sqrt(dot(self, self)) of the vector's
\* components.
C5_ComponentsNeverMutated ==
    [][ /\ \A o \in Objs : heap'[o].components = heap[o].components
        /\ CacheValid(heap') ]_vars

C5_Witness ==
    /\ last.op = "scale"
    /\ last.res.tag = "vec"
    /\ last.res.vec # C(last.v1)
    /\ \A o \in Objs : heap[o].norm # None /\ heap[o].norm[1] # 0

\* C6: whatever the interleaving of the reads of one vector's norm, every
\* read returns the same value, every store into the cache field stores that
\* value, and a populated cache field is never emptied nor changed; when no
\* two reads overlap, the value is computed once and never again.
C6_NormCacheWriteOnce ==
    [][ /\ got' \subseteq {<<NormOf(C(Shared))>>}
        /\ wrote' \subseteq {NormOf(C(Shared))}
        /\ heap[Shared].norm # None => heap'[Shared].norm = heap[Shared].norm
        /\ ~overlap' => computes' <= 1
        /\ (~overlap' /\ heap[Shared].norm # None) => computes' = computes
      ]_vars

C6_Witness ==
    /\ overlap
    /\ computes = NumThreads
    /\ got # {}
    /\ wrote # {}
    /\ \A t \in Threads : pc[t] = "idle"

\* C7 (as claimed): v[i] is the i-th component for i in [0, dim) and raises
\* IndexError for every other integer i, the negative ones included.
C7_IndexOutsideRaises ==
    last.op = "getitem" =>
        IF 0 <= last.arg /\ last.arg < D1
        THEN last.res.tag = "num" /\ last.res.num = C(last.v1)[last.arg + 1]
        ELSE Raised("IndexError")

\* C7 (amended): v[i] is the i-th component for i in [0, dim), the component
\* at dim + i for i in [-dim, 0), and raises IndexError for i >= dim and for
\* i < -dim.
C7_IndexAsArray ==
    last.op = "getitem" =>
        IF 0 <= last.arg /\ last.arg < D1
        THEN last.res.tag = "num" /\ last.res.num = C(last.v1)[last.arg + 1]
        ELSE IF -D1 <= last.arg /\ last.arg < 0
        THEN last.res.tag = "num" /\ last.res.num = C(last.v1)[D1 + last.arg + 1]
        ELSE Raised("IndexError")

C7_Witness ==
    /\ last.op = "getitem"
    /\ last.arg < 0
    /\ last.res.tag = "num"
    /\ last.res.num # C(last.v1)[1]

RoundedEqual(c1, c2) ==
    /\ Len(c1) = Len(c2)
    /\ \A i \in 1..Len(c1) : Round(c1[i], PRECISION) = Round(c2[i], PRECISION)

Zero(n) == make_zero(n).vec

\* C9: for every vector v, add(v, scale(v, -1)) is a vector equal, under
\* tolerance equality, to the zero vector of v's dimension, and subtract(v, v)
\* and v - v give the same vector.
C9_SelfDifferenceIsZero ==
    /\ \A o \in Objs :
          LET d == add(C(o), scale(C(o), Num(Float(-1))).vec)
          IN  /\ d.tag = "vec"
              /\ almost_equal(d.vec, Zero(Len(C(o)))).bool
    /\ (last.op \in {"subtract", "sub"} /\ last.v1 = last.v2) =>
          /\ last.res.tag = "vec"
          /\ last.res.vec = add(C(last.v1), scale(C(last.v1), Num(Float(-1))).vec).vec
          /\ eq(last.res.vec, Zero(D1)).bool

C9_Witness ==
    /\ last.op = "sub"
    /\ last.v1 = last.v2
    /\ D1 = MaxDim
    /\ \A i \in 1..D1 : C(last.v1)[i] # 0
    /\ last.res.vec = Zero(D1)

\* C10: build_unit_vector, make_unitary, project and angle_between raise
\* ZeroDivisionError whenever the operand concerned has norm zero (the vector
\* for the first two, d for project, either operand for angle_between; the
\* operands of angle_between taken of one dimension, as dot requires).
C10_ZeroNormRaisesDivisionByZero ==
    /\ (last.op \in {"build_unit_vector", "make_unitary"} /\ NormOf(C(last.v1)) = 0)
          => Raised("ZeroDivisionError")
    /\ (last.op = "project" /\ NormOf(C(last.v2)) = 0)
          => Raised("ZeroDivisionError")
    /\ (last.op = "angle_between" /\ D1 = D2
           /\ (NormOf(C(last.v1)) = 0 \/ NormOf(C(last.v2)) = 0))
          => Raised("ZeroDivisionError")

====
